---- MODULE Spec2Model ----
(***************************************************************************)
(* State-machine model of EscPosDecoder (esc_pos_decoder.py): an           *)
(* incremental decoder of an ESC/POS byte stream.                          *)
(*                                                                         *)
(* Python values are modelled as follows.  A bytes object is a sequence of *)
(* integers 0..255; the 1-byte objects the decoder stores in its buffers   *)
(* are therefore 1-element sequences <<b>>, and a list of bytes objects is *)
(* a sequence of sequences.  A str is the sequence of its code points.     *)
(* Every operator that models a method takes the object as a record s (one *)
(* field per attribute) and returns the record after the call; the field   *)
(* exc names the exception that is propagating out of the call ("none"     *)
(* when there is none) and the field calls logs the printer methods that   *)
(* were invoked, in order.                                                 *)
(***************************************************************************)
EXTENDS Integers, Sequences, FiniteSets, TLC

(***************************************************************************)
(* Bounds of the model.                                                    *)
(***************************************************************************)
\* longest byte stream fed between two get_text() calls
MaxSession == 4
\* largest value of the error counter the model follows
MaxErrors == 2

(***************************************************************************)
(* Program constants.                                                      *)
(***************************************************************************)
ESC == <<27>>
GS == <<29>>
PRINTABLES == (9..13) \cup (32..126)

FILL_DATA_BUF == 1
FILL_CMD_BUF == 2
FILL_CMD_ARG_BUF == 3

\* the byte b"\n"
LF == 10

(***************************************************************************)
(* Python helpers.                                                         *)
(***************************************************************************)
\* b''.join(list_of_bytes)
RECURSIVE Join(_)
Join(frags) ==
    IF frags = <<>> THEN <<>> ELSE Head(frags) \o Join(Tail(frags))

\* b"\n" * n (the empty bytes object when n <= 0)
Repeat(byte, n) == [i \in 1..n |-> byte]

\* int.to_bytes(1, byteorder): the 1-byte object holding b
to_bytes(b) == <<b>>

\* The length of the UTF-8 sequence that starts at the head of bs, or 0 when
\* the head starts no well-formed sequence (bytes.decode('UTF-8'), strict).
Utf8Len(bs) ==
    LET b1 == bs[1]
        n == Len(bs)
        cont(i) == i <= n /\ bs[i] \in 128..191
    IN  IF b1 < 128 THEN 1
        ELSE IF b1 \in 194..223 /\ cont(2) THEN 2
        ELSE IF b1 = 224 /\ n >= 2 /\ bs[2] \in 160..191 /\ cont(3) THEN 3
        ELSE IF b1 \in (225..236) \cup (238..239) /\ cont(2) /\ cont(3) THEN 3
        ELSE IF b1 = 237 /\ n >= 2 /\ bs[2] \in 128..159 /\ cont(3) THEN 3
        ELSE IF b1 = 240 /\ n >= 2 /\ bs[2] \in 144..191 /\ cont(3) /\ cont(4) THEN 4
        ELSE IF b1 \in 241..243 /\ cont(2) /\ cont(3) /\ cont(4) THEN 4
        ELSE IF b1 = 244 /\ n >= 2 /\ bs[2] \in 128..143 /\ cont(3) /\ cont(4) THEN 4
        ELSE 0

\* The code point encoded by the first k bytes of bs (k = Utf8Len(bs) > 0).
Utf8CodePoint(bs, k) ==
    CASE k = 1 -> bs[1]
      [] k = 2 -> (bs[1] - 192) * 64 + (bs[2] - 128)
      [] k = 3 -> (bs[1] - 224) * 4096 + (bs[2] - 128) * 64 + (bs[3] - 128)
      [] k = 4 -> (bs[1] - 240) * 262144 + (bs[2] - 128) * 4096
                    + (bs[3] - 128) * 64 + (bs[4] - 128)

\* The general case of decode: one well-formed sequence after the other.
RECURSIVE Utf8Decode(_)
Utf8Decode(bs) ==
    IF bs = <<>> THEN [ok |-> TRUE, text |-> <<>>]
    ELSE LET k == Utf8Len(bs) IN
         IF k = 0 THEN [ok |-> FALSE, text |-> <<>>]
         ELSE LET rest == Utf8Decode(SubSeq(bs, k + 1, Len(bs))) IN
              [ok |-> rest.ok,
               text |-> IF rest.ok THEN <<Utf8CodePoint(bs, k)>> \o rest.text
                        ELSE <<>>]

\* bytes.decode('UTF-8'): ok is FALSE when UnicodeDecodeError is raised.  A
\* pure ASCII object decodes to one code point per byte.
decode(bs) ==
    IF \A i \in 1..Len(bs) : bs[i] < 128
    THEN [ok |-> TRUE, text |-> [i \in 1..Len(bs) |-> bs[i]]]
    ELSE Utf8Decode(bs)

(***************************************************************************)
(* The command decoding tree built in __init__: a dict maps 1-byte keys to *)
(* dicts or to bound methods.                                              *)
(***************************************************************************)
Method(name) == [kind |-> "method", name |-> name, items |-> <<>>]
Dict(items) == [kind |-> "dict", name |-> "", items |-> items]
\* Python's None (what _find_printer_method returns on a failed search)
None == [kind |-> "None", name |-> "", items |-> <<>>]

DecoderTree ==
    Dict(
      ESC :> Dict(
           <<33>> :> Method("_select_print_mode")
        @@ <<37>> :> Method("_select_userdef_charset")
        @@ <<45>> :> Method("_set_underline")
        @@ <<77>> :> Method("_set_font")
        @@ <<64>> :> Method("_initialize_printer")
        @@ <<69>> :> Method("_set_emphasis_mode")
        @@ <<74>> :> Method("_feed_forward_units")
        @@ <<86>> :> Method("_cut")
        @@ <<97>> :> Method("_select_justification")
        @@ <<100>> :> Method("_feed_forward_lines")
        @@ <<112>> :> Method("_pulse")
        @@ <<123>> :> Method("_upside_down"))
      @@
      GS :> Dict(
           <<33>> :> Method("_set_character_size")
        @@ <<40>> :> Dict(<<76>> :> Method("_process_graphics_data"))
        @@ <<76>> :> Method("_set_left_margin")
        @@ <<86>> :> Method("_cut_paper")
        @@ <<87>> :> Method("_set_print_area_width")
        @@ <<104>> :> Method("_set_barcode_height")))

\* printer_method.__code__.co_argcount: the parameters of each def, self included
co_argcount(name) ==
    CASE name = "_initialize_printer" -> 1
      [] name \in {"_select_justification", "_select_print_mode", "_cut",
                   "_cut_paper", "_set_barcode_height", "_select_userdef_charset",
                   "_set_emphasis_mode", "_upside_down", "_set_underline",
                   "_set_character_size", "_set_font", "_feed_forward_lines",
                   "_feed_forward_units"} -> 2
      [] name \in {"_set_print_area_width", "_set_left_margin"} -> 3
      [] name = "_pulse" -> 4
      [] name = "_process_graphics_data" -> 5

(***************************************************************************)
(* The printer methods.  Each takes the decoder and its argument bytes     *)
(* objects; most only log.                                                 *)
(***************************************************************************)
\* A faulty variant of _initialize_printer: it takes its docstring ("Clears
\* the data in the print buffer") at its word and empties out_buf.
_initialize_printer_clearing(s) == [s EXCEPT !.out_buf = <<>>]

_initialize_printer(s) == s
_set_print_area_width(s, nL, nH) == s

\* A faulty variant of _set_left_margin: the margin is written to the output
\* as nL blanks.
_set_left_margin_indenting(s, nL, nH) ==
    IF s.out_buf_type = "list"
    THEN [s EXCEPT !.out_buf = Append(@, [i \in 1..nL[1] |-> 32])]
    ELSE [s EXCEPT !.exc = "AttributeError"]

_set_left_margin(s, nL, nH) == s

_select_justification(s, n) ==
    LET v == n[1] IN
    IF v \in {0, 48, 1, 49, 2, 50} THEN s
    ELSE [s EXCEPT !.exc = "ValueError"]

_select_print_mode(s, print_mode) == s
_cut(s, cut_mode) == s
_cut_paper(s, cut_mode) == s
_set_barcode_height(s, height) == s
_select_userdef_charset(s, n) == s
_set_emphasis_mode(s, onoff) == s
_upside_down(s, onoff) == s
_set_underline(s, u) == s
_set_character_size(s, size) == s
_set_font(s, font) == s

\* A faulty variant of out_buf_append: the fragment is put in front of the
\* list (insert(0, frag)) and not behind it.
out_buf_prepend(s, frag) ==
    IF s.out_buf_type = "list"
    THEN [s EXCEPT !.out_buf = <<frag>> \o @]
    ELSE [s EXCEPT !.exc = "AttributeError"]

\* list.append on self.out_buf; AttributeError once get_text has left a
\* bytes object there
out_buf_append(s, frag) ==
    IF s.out_buf_type = "list"
    THEN [s EXCEPT !.out_buf = Append(@, frag)]
    ELSE [s EXCEPT !.exc = "AttributeError"]

\* A faulty variant of _feed_forward_lines: one line feed whatever N is.
_feed_forward_lines_once(s, num_lines) ==
    out_buf_append(s, Repeat(LF, 1))

_feed_forward_lines(s, num_lines) ==
    out_buf_append(s, Repeat(LF, num_lines[1]))

_feed_forward_units(s, num_units) ==
    out_buf_append(s, Repeat(LF, num_units[1]))

_process_graphics_data(s, pl, ph, m, fn) == s
_pulse(s, m, t1, t2) == s

\* func(*args) for a bound method func of the tree; the call is logged in calls
Call(s, func, args) ==
    LET name == func.name
        t == [s EXCEPT !.calls = Append(@, <<name, args>>)]
    IN  CASE name = "_initialize_printer" -> _initialize_printer(t)
          [] name = "_set_print_area_width" -> _set_print_area_width(t, args[1], args[2])
          [] name = "_set_left_margin" -> _set_left_margin(t, args[1], args[2])
          [] name = "_select_justification" -> _select_justification(t, args[1])
          [] name = "_select_print_mode" -> _select_print_mode(t, args[1])
          [] name = "_cut" -> _cut(t, args[1])
          [] name = "_cut_paper" -> _cut_paper(t, args[1])
          [] name = "_set_barcode_height" -> _set_barcode_height(t, args[1])
          [] name = "_select_userdef_charset" -> _select_userdef_charset(t, args[1])
          [] name = "_set_emphasis_mode" -> _set_emphasis_mode(t, args[1])
          [] name = "_upside_down" -> _upside_down(t, args[1])
          [] name = "_set_underline" -> _set_underline(t, args[1])
          [] name = "_set_character_size" -> _set_character_size(t, args[1])
          [] name = "_set_font" -> _set_font(t, args[1])
          [] name = "_feed_forward_lines" -> _feed_forward_lines(t, args[1])
          [] name = "_feed_forward_units" -> _feed_forward_units(t, args[1])
          [] name = "_process_graphics_data" ->
                 _process_graphics_data(t, args[1], args[2], args[3], args[4])
          [] name = "_pulse" -> _pulse(t, args[1], args[2], args[3])

(***************************************************************************)
(* The decoder's methods.                                                  *)
(***************************************************************************)
\* A faulty variant of _reset: the line "self.out_buf = []" is missing.
_reset_keeps_out_buf(s) ==
    [s EXCEPT !.decoder_mode = FILL_DATA_BUF,
              !.printout_width = 48,
              !.cmd_buf = <<>>,
              !.cmd_arg_buf = <<>>,
              !.data_buf = <<>>,
              !.cmd_expected_nargs = 0,
              !.num_parsed_bytes = 0]

_reset(s) ==
    [s EXCEPT !.decoder_mode = FILL_DATA_BUF,
              !.printout_width = 48,
              !.cmd_buf = <<>>,
              !.cmd_arg_buf = <<>>,
              !.data_buf = <<>>,
              !.cmd_expected_nargs = 0,
              !.num_parsed_bytes = 0,
              !.out_buf = <<>>,
              !.out_buf_type = "list"]

\* EscPosDecoder(): the object after construction (verbose only selects
\* what is printed and is left out)
__init__ ==
    _reset([num_decoding_errors |-> 0,
            decoder_tree |-> DecoderTree,
            decoder_mode |-> 0,
            printout_width |-> 0,
            cmd_buf |-> <<>>,
            cmd_arg_buf |-> <<>>,
            data_buf |-> <<>>,
            cmd_expected_nargs |-> 0,
            num_parsed_bytes |-> 0,
            out_buf |-> <<>>,
            out_buf_type |-> "list",
            exc |-> "none",
            calls |-> <<>>])

get_num_decoding_errors(s) == [self |-> s, ret |-> s.num_decoding_errors]

\* A faulty variant of _data_buf_to_output: the sanity check of the buffer
\* is missing and every buffer goes to the output.
_data_buf_to_output_unchecked(s) ==
    IF s.data_buf # <<>>
    THEN LET t == out_buf_append(s, Join(s.data_buf))
         IN  IF t.exc # "none" THEN t
             ELSE [t EXCEPT !.data_buf = <<>>]
    ELSE s

\* A faulty variant of _data_buf_to_output: the printable bytes of a buffer
\* are kept and only the others are dropped.
_data_buf_to_output_filtering(s) ==
    IF s.data_buf # <<>>
    THEN LET data_buf == Join(s.data_buf)
             t == out_buf_append(s, SelectSeq(data_buf, LAMBDA c : c \in PRINTABLES))
         IN  IF t.exc # "none" THEN t
             ELSE [t EXCEPT !.data_buf = <<>>]
    ELSE s

_data_buf_to_output(s) ==
    IF s.data_buf # <<>>
    THEN LET data_buf == Join(s.data_buf)
             has_non_printables ==
                 \E i \in 1..Len(data_buf) : data_buf[i] \notin PRINTABLES
         IN  IF ~has_non_printables
             THEN LET t == out_buf_append(s, data_buf)
                  IN  IF t.exc # "none" THEN t
                      ELSE [t EXCEPT !.data_buf = <<>>]
             ELSE [s EXCEPT !.data_buf = <<>>]
    ELSE s

\* A faulty variant of _terminate_feed: a command that the end of the stream
\* truncates is counted as a decoding error.
_terminate_feed_counting(s) ==
    IF s.decoder_mode = FILL_DATA_BUF THEN _data_buf_to_output(s)
    ELSE [s EXCEPT !.num_decoding_errors = @ + 1]

_terminate_feed(s) ==
    IF s.decoder_mode = FILL_DATA_BUF THEN _data_buf_to_output(s)
    ELSE s

\* A faulty variant of get_text: the call of _terminate_feed is missing, so
\* what the data buffer holds at the end of the stream is never flushed.
get_text_unterminated(s) ==
    LET t == s IN
    IF t.out_buf_type # "list"
    THEN [self |-> [t EXCEPT !.exc = "TypeError"], ret |-> <<>>]
    ELSE LET joined == Join(t.out_buf)
             u == [t EXCEPT !.out_buf = <<joined>>, !.out_buf_type = "bytes"]
             text == decode(joined)
         IN  IF ~text.ok
             THEN [self |-> [u EXCEPT !.exc = "UnicodeDecodeError"], ret |-> <<>>]
             ELSE [self |-> _reset(u), ret |-> text.text]

\* A faulty variant of get_text: the text ends with a line feed that no byte
\* of the stream asked for.
get_text_trailing_newline(s) ==
    LET t == _terminate_feed(s) IN
    IF t.exc # "none" THEN [self |-> t, ret |-> <<>>]
    ELSE IF t.out_buf_type # "list"
    THEN [self |-> [t EXCEPT !.exc = "TypeError"], ret |-> <<>>]
    ELSE LET joined == Join(t.out_buf) \o <<LF>>
             u == [t EXCEPT !.out_buf = <<joined>>, !.out_buf_type = "bytes"]
             text == decode(joined)
         IN  IF ~text.ok
             THEN [self |-> [u EXCEPT !.exc = "UnicodeDecodeError"], ret |-> <<>>]
             ELSE [self |-> _reset(u), ret |-> text.text]

get_text(s) ==
    LET t == _terminate_feed(s) IN
    IF t.exc # "none" THEN [self |-> t, ret |-> <<>>]
    ELSE IF t.out_buf_type # "list"
    THEN [self |-> [t EXCEPT !.exc = "TypeError"], ret |-> <<>>]
    ELSE LET joined == Join(t.out_buf)
             u == [t EXCEPT !.out_buf = <<joined>>, !.out_buf_type = "bytes"]
             text == decode(joined)
         IN  IF ~text.ok
             THEN [self |-> [u EXCEPT !.exc = "UnicodeDecodeError"], ret |-> <<>>]
             ELSE [self |-> _reset(u), ret |-> text.text]

\* the loop "for key in self.cmd_buf: search = search[key]": a dict without
\* the key raises KeyError, a bound method cannot be subscripted (TypeError)
RECURSIVE Search(_, _)
Search(search, keys) ==
    IF keys = <<>> THEN [err |-> "none", found |-> search]
    ELSE IF search.kind # "dict" THEN [err |-> "TypeError", found |-> None]
    ELSE IF Head(keys) \notin DOMAIN search.items
    THEN [err |-> "KeyError", found |-> None]
    ELSE Search(search.items[Head(keys)], Tail(keys))

\* A faulty variant of _find_printer_method: the search walks down the tree
\* in self.decoder_tree itself and not in a local variable, so that a search
\* that ends at a dict leaves that dict as the tree.
_find_printer_method_narrowing(s) ==
    LET r == Search(s.decoder_tree, s.cmd_buf) IN
    CASE r.err = "none" ->
            [self |-> IF r.found.kind = "dict"
                      THEN [s EXCEPT !.decoder_tree = r.found] ELSE s,
             ret |-> r.found]
      [] r.err = "KeyError" ->
            [self |-> [s EXCEPT !.num_decoding_errors = @ + 1,
                                !.cmd_arg_buf = <<>>,
                                !.cmd_buf = <<>>,
                                !.decoder_mode = FILL_DATA_BUF],
             ret |-> None]
      [] r.err = "TypeError" ->
            [self |-> [s EXCEPT !.exc = "TypeError"], ret |-> None]

\* A faulty variant of _find_printer_method: a failed search is not counted.
_find_printer_method_uncounted(s) ==
    LET r == Search(s.decoder_tree, s.cmd_buf) IN
    CASE r.err = "none" -> [self |-> s, ret |-> r.found]
      [] r.err = "KeyError" ->
            [self |-> [s EXCEPT !.cmd_arg_buf = <<>>,
                                !.cmd_buf = <<>>,
                                !.decoder_mode = FILL_DATA_BUF],
             ret |-> None]
      [] r.err = "TypeError" ->
            [self |-> [s EXCEPT !.exc = "TypeError"], ret |-> None]

\* A faulty variant of _find_printer_method: a failed search does not switch
\* the mode back to FILL_DATA_BUF.
_find_printer_method_keeps_mode(s) ==
    LET r == Search(s.decoder_tree, s.cmd_buf) IN
    CASE r.err = "none" -> [self |-> s, ret |-> r.found]
      [] r.err = "KeyError" ->
            [self |-> [s EXCEPT !.num_decoding_errors = @ + 1,
                                !.cmd_arg_buf = <<>>,
                                !.cmd_buf = <<>>],
             ret |-> None]
      [] r.err = "TypeError" ->
            [self |-> [s EXCEPT !.exc = "TypeError"], ret |-> None]

_find_printer_method(s) ==
    LET r == Search(s.decoder_tree, s.cmd_buf) IN
    CASE r.err = "none" -> [self |-> s, ret |-> r.found]
      [] r.err = "KeyError" ->
            [self |-> [s EXCEPT !.num_decoding_errors = @ + 1,
                                !.cmd_arg_buf = <<>>,
                                !.cmd_buf = <<>>,
                                !.decoder_mode = FILL_DATA_BUF],
             ret |-> None]
      [] r.err = "TypeError" ->
            [self |-> [s EXCEPT !.exc = "TypeError"], ret |-> None]

\* callable(x): the bound methods of the tree are, dicts and None are not
callable(x) == x.kind = "method"

\* A faulty variant of _process_command_buffer: the one for 'self' is not
\* subtracted from co_argcount.
_process_command_buffer_counting_self(s) ==
    LET r == _find_printer_method(s)
        t == r.self
        printer_method == r.ret
    IN  IF t.exc # "none" THEN t
        ELSE IF callable(printer_method)
        THEN LET nargs == co_argcount(printer_method.name)
                 u == [t EXCEPT !.cmd_arg_buf = <<>>]
             IN  [u EXCEPT !.cmd_expected_nargs = nargs,
                           !.decoder_mode = FILL_CMD_ARG_BUF]
        ELSE t

_process_command_buffer(s) ==
    LET r == _find_printer_method(s)
        t == r.self
        printer_method == r.ret
    IN  IF t.exc # "none" THEN t
        ELSE IF callable(printer_method)
        THEN LET nargs == co_argcount(printer_method.name) - 1
                 u == [t EXCEPT !.cmd_arg_buf = <<>>]
             IN  IF nargs = 0
                 THEN LET v == Call(u, printer_method, <<>>)
                      IN  IF v.exc # "none" THEN v
                          ELSE [v EXCEPT !.cmd_buf = <<>>,
                                         !.cmd_arg_buf = <<>>,
                                         !.cmd_expected_nargs = 0,
                                         !.decoder_mode = FILL_DATA_BUF]
                 ELSE [u EXCEPT !.cmd_expected_nargs = nargs,
                                !.decoder_mode = FILL_CMD_ARG_BUF]
        ELSE t

\* A faulty variant of printer_method_args_wrapper: a failed printer method
\* is counted as a decoding error.
printer_method_args_wrapper_counting(s, func, args) ==
    IF ~callable(func) THEN [s EXCEPT !.exc = "AttributeError"]
    ELSE LET t == Call(s, func, args) IN
         [t EXCEPT !.exc = "none",
                   !.num_decoding_errors = IF t.exc # "none" THEN @ + 1 ELSE @,
                   !.cmd_buf = <<>>,
                   !.cmd_arg_buf = <<>>,
                   !.cmd_expected_nargs = 0,
                   !.decoder_mode = FILL_DATA_BUF]

\* A faulty variant of printer_method_args_wrapper: the line
\* "self.cmd_expected_nargs = 0" is missing.
printer_method_args_wrapper_keeps_nargs(s, func, args) ==
    IF ~callable(func) THEN [s EXCEPT !.exc = "AttributeError"]
    ELSE LET t == Call(s, func, args) IN
         [t EXCEPT !.exc = "none",
                   !.cmd_buf = <<>>,
                   !.cmd_arg_buf = <<>>,
                   !.decoder_mode = FILL_DATA_BUF]

\* The f-string of the first log line reads func.__qualname__, which only a
\* method has; whatever func(*args) raises is swallowed by the bare except.
printer_method_args_wrapper(s, func, args) ==
    IF ~callable(func) THEN [s EXCEPT !.exc = "AttributeError"]
    ELSE LET t == Call(s, func, args) IN
         [t EXCEPT !.exc = "none",
                   !.cmd_buf = <<>>,
                   !.cmd_arg_buf = <<>>,
                   !.cmd_expected_nargs = 0,
                   !.decoder_mode = FILL_DATA_BUF]

\* A faulty variant of _feed_byte: the byte at which the search for a command
\* fails is salvaged, that is, handled once more as a byte that arrives in
\* FILL_DATA_BUF (it is collected as data, or it starts a new command).
_feed_byte_salvaging(s, b) ==
    CASE s.decoder_mode = FILL_DATA_BUF ->
            IF b \in DOMAIN s.decoder_tree.items
            THEN LET t == _data_buf_to_output(s) IN
                 IF t.exc # "none" THEN t
                 ELSE [t EXCEPT !.cmd_buf = <<b>>,
                                !.cmd_arg_buf = <<>>,
                                !.cmd_expected_nargs = 0,
                                !.decoder_mode = FILL_CMD_BUF]
            ELSE [s EXCEPT !.data_buf = Append(@, b)]
      [] s.decoder_mode = FILL_CMD_BUF ->
            LET t == _process_command_buffer([s EXCEPT !.cmd_buf = Append(@, b)]) IN
            IF t.num_decoding_errors = s.num_decoding_errors THEN t
            ELSE IF b \in DOMAIN t.decoder_tree.items
            THEN [t EXCEPT !.cmd_buf = <<b>>,
                           !.cmd_arg_buf = <<>>,
                           !.cmd_expected_nargs = 0,
                           !.decoder_mode = FILL_CMD_BUF]
            ELSE [t EXCEPT !.data_buf = Append(@, b)]
      [] s.decoder_mode = FILL_CMD_ARG_BUF ->
            LET t == [s EXCEPT !.cmd_arg_buf = Append(@, b)] IN
            IF Len(t.cmd_arg_buf) = t.cmd_expected_nargs
            THEN LET r == _find_printer_method(t) IN
                 IF r.self.exc # "none" THEN r.self
                 ELSE printer_method_args_wrapper(r.self, r.ret, r.self.cmd_arg_buf)
            ELSE t
      [] OTHER -> s

\* A faulty variant of _feed_byte: a lead byte that arrives while arguments
\* are collected gives the command up and starts a new one.
_feed_byte_resyncing(s, b) ==
    CASE s.decoder_mode = FILL_DATA_BUF ->
            IF b \in DOMAIN s.decoder_tree.items
            THEN LET t == _data_buf_to_output(s) IN
                 IF t.exc # "none" THEN t
                 ELSE [t EXCEPT !.cmd_buf = <<b>>,
                                !.cmd_arg_buf = <<>>,
                                !.cmd_expected_nargs = 0,
                                !.decoder_mode = FILL_CMD_BUF]
            ELSE [s EXCEPT !.data_buf = Append(@, b)]
      [] s.decoder_mode = FILL_CMD_BUF ->
            _process_command_buffer([s EXCEPT !.cmd_buf = Append(@, b)])
      [] s.decoder_mode = FILL_CMD_ARG_BUF ->
            IF b \in DOMAIN s.decoder_tree.items
            THEN [s EXCEPT !.cmd_buf = <<b>>,
                           !.cmd_arg_buf = <<>>,
                           !.cmd_expected_nargs = 0,
                           !.decoder_mode = FILL_CMD_BUF]
            ELSE LET t == [s EXCEPT !.cmd_arg_buf = Append(@, b)] IN
                 IF Len(t.cmd_arg_buf) = t.cmd_expected_nargs
                 THEN LET r == _find_printer_method(t) IN
                      IF r.self.exc # "none" THEN r.self
                      ELSE printer_method_args_wrapper(r.self, r.ret, r.self.cmd_arg_buf)
                 ELSE t
      [] OTHER -> s

\* b is a 1-byte bytes object
_feed_byte(s, b) ==
    CASE s.decoder_mode = FILL_DATA_BUF ->
            IF b \in DOMAIN s.decoder_tree.items
            THEN LET t == _data_buf_to_output(s) IN
                 IF t.exc # "none" THEN t
                 ELSE [t EXCEPT !.cmd_buf = <<b>>,
                                !.cmd_arg_buf = <<>>,
                                !.cmd_expected_nargs = 0,
                                !.decoder_mode = FILL_CMD_BUF]
            ELSE [s EXCEPT !.data_buf = Append(@, b)]
      [] s.decoder_mode = FILL_CMD_BUF ->
            _process_command_buffer([s EXCEPT !.cmd_buf = Append(@, b)])
      [] s.decoder_mode = FILL_CMD_ARG_BUF ->
            LET t == [s EXCEPT !.cmd_arg_buf = Append(@, b)] IN
            IF Len(t.cmd_arg_buf) = t.cmd_expected_nargs
            THEN LET r == _find_printer_method(t) IN
                 IF r.self.exc # "none" THEN r.self
                 ELSE printer_method_args_wrapper(r.self, r.ret, r.self.cmd_arg_buf)
            ELSE t
      [] OTHER -> s

\* A faulty variant of feed_bytes: the data buffer is flushed to the output
\* at the end of every chunk.
RECURSIVE feed_loop(_, _)
feed_loop(s, bytes) ==
    IF bytes = <<>> \/ s.exc # "none" THEN s
    ELSE feed_loop(_feed_byte(s, to_bytes(Head(bytes))), Tail(bytes))

feed_bytes_flushing(s, bytes) ==
    LET t == feed_loop(s, bytes) IN
    IF t.exc = "none" /\ t.decoder_mode = FILL_DATA_BUF
    THEN _data_buf_to_output(t) ELSE t

\* feed_bytes(bytes): an exception leaves the loop
RECURSIVE feed_bytes(_, _)
feed_bytes(s, bytes) ==
    IF bytes = <<>> \/ s.exc # "none" THEN s
    ELSE feed_bytes(_feed_byte(s, to_bytes(Head(bytes))), Tail(bytes))

\* parse_file(filename) for a readable file that holds contents: f.read(1)
\* yields its bytes one after the other as 1-byte objects
RECURSIVE parse_file(_, _)
parse_file(s, contents) ==
    IF contents = <<>> \/ s.exc # "none" THEN s
    ELSE parse_file(_feed_byte(s, SubSeq(contents, 1, 1)), Tail(contents))

(***************************************************************************)
(* The state: the attributes of one EscPosDecoder object, and what its     *)
(* caller has seen of it.                                                  *)
(***************************************************************************)
VARIABLES
    num_decoding_errors,
    decoder_tree,
    decoder_mode,
    printout_width,
    cmd_buf,
    cmd_arg_buf,
    data_buf,
    cmd_expected_nargs,
    num_parsed_bytes,
    out_buf,
    \* "list" or "bytes": the Python type of the object out_buf refers to
    out_buf_type,
    \* the exception the last call let escape to the caller, or "none"
    exc,
    \* the printer methods invoked since construction or the last get_text()
    calls,
    \* the bytes fed since construction or the last get_text()
    session,
    \* the error counter when the current session started
    session_start_errors

attrs == <<num_decoding_errors, decoder_tree, decoder_mode, printout_width, cmd_buf,
           cmd_arg_buf, data_buf, cmd_expected_nargs, num_parsed_bytes, out_buf,
           out_buf_type>>

vars == <<num_decoding_errors, decoder_tree, decoder_mode, printout_width, cmd_buf,
          cmd_arg_buf, data_buf, cmd_expected_nargs, num_parsed_bytes, out_buf,
          out_buf_type, exc, calls, session, session_start_errors>>

\* the object as the record the method operators work on
Self ==
    [num_decoding_errors |-> num_decoding_errors,
     decoder_tree |-> decoder_tree,
     decoder_mode |-> decoder_mode,
     printout_width |-> printout_width,
     cmd_buf |-> cmd_buf,
     cmd_arg_buf |-> cmd_arg_buf,
     data_buf |-> data_buf,
     cmd_expected_nargs |-> cmd_expected_nargs,
     num_parsed_bytes |-> num_parsed_bytes,
     out_buf |-> out_buf,
     out_buf_type |-> out_buf_type,
     exc |-> "none",
     calls |-> calls]

\* the object is left as the record t
Becomes(t) ==
    /\ num_decoding_errors' = t.num_decoding_errors
    /\ decoder_tree' = t.decoder_tree
    /\ decoder_mode' = t.decoder_mode
    /\ printout_width' = t.printout_width
    /\ cmd_buf' = t.cmd_buf
    /\ cmd_arg_buf' = t.cmd_arg_buf
    /\ data_buf' = t.data_buf
    /\ cmd_expected_nargs' = t.cmd_expected_nargs
    /\ num_parsed_bytes' = t.num_parsed_bytes
    /\ out_buf' = t.out_buf
    /\ out_buf_type' = t.out_buf_type
    /\ exc' = t.exc

\* The bytes the model feeds: the two lead bytes, a non-printable byte that
\* is no lead byte (2), and printable bytes that are command bytes after one
\* lead byte or the other: '(' 40, '@' 64, 'L' 76, 'a' 97, 'd' 100.
Alphabet == {2, 27, 29, 40, 64, 76, 97, 100}

\* the byte strings over Alphabet of length at most n
Chunks(n) == UNION {[1..k -> Alphabet] : k \in 0..n}

Init ==
    /\ num_decoding_errors = __init__.num_decoding_errors
    /\ decoder_tree = __init__.decoder_tree
    /\ decoder_mode = __init__.decoder_mode
    /\ printout_width = __init__.printout_width
    /\ cmd_buf = __init__.cmd_buf
    /\ cmd_arg_buf = __init__.cmd_arg_buf
    /\ data_buf = __init__.data_buf
    /\ cmd_expected_nargs = __init__.cmd_expected_nargs
    /\ num_parsed_bytes = __init__.num_parsed_bytes
    /\ out_buf = __init__.out_buf
    /\ out_buf_type = __init__.out_buf_type
    /\ exc = "none"
    /\ calls = <<>>
    /\ session = <<>>
    /\ session_start_errors = 0

\* decoder.feed_bytes(chunk)
FeedBytes(chunk) ==
    LET t == feed_bytes(Self, chunk) IN
    /\ t.num_decoding_errors <= MaxErrors
    /\ Becomes(t)
    /\ calls' = t.calls
    /\ session' = session \o chunk
    /\ UNCHANGED session_start_errors

\* decoder.parse_file(filename), the file holding contents
ParseFile(contents) ==
    LET t == parse_file(Self, contents) IN
    /\ t.num_decoding_errors <= MaxErrors
    /\ Becomes(t)
    /\ calls' = t.calls
    /\ session' = session \o contents
    /\ UNCHANGED session_start_errors

\* decoder.get_num_decoding_errors()
GetNumDecodingErrors ==
    LET r == get_num_decoding_errors(Self) IN
    /\ Becomes(r.self)
    /\ calls' = r.self.calls
    /\ UNCHANGED <<session, session_start_errors>>

\* text = decoder.get_text(); a session ends when it returns
GetText ==
    LET r == get_text(Self)
        ok == r.self.exc = "none"
    IN  /\ Becomes(r.self)
        /\ calls' = IF ok THEN <<>> ELSE r.self.calls
        /\ session' = IF ok THEN <<>> ELSE session
        /\ session_start_errors' =
               IF ok THEN r.self.num_decoding_errors ELSE session_start_errors

Next ==
    \/ \E chunk \in Chunks(MaxSession - Len(session)) : FeedBytes(chunk)
    \/ \E contents \in Chunks(MaxSession - Len(session)) : ParseFile(contents)
    \/ GetNumDecodingErrors
    \/ GetText

Spec == Init /\ [][Next]_vars

(***************************************************************************)
(* Definitions the properties share.                                       *)
(***************************************************************************)
\* a freshly constructed decoder whose error counter is what the current
\* session started with (0 for the first session: then it is __init__)
SessionStart == [__init__ EXCEPT !.num_decoding_errors = session_start_errors]

\* bytes fed one feed_bytes call per byte
RECURSIVE FeedEach(_, _)
FeedEach(s, bytes) ==
    IF bytes = <<>> THEN s
    ELSE FeedEach(feed_bytes(s, <<Head(bytes)>>), Tail(bytes))

\* a byte string as the list of 1-byte objects the buffers hold
AsList(bytes) == [i \in 1..Len(bytes) |-> <<bytes[i]>>]

AllPrintable(bytes) == \A i \in 1..Len(bytes) : bytes[i] \in PRINTABLES

(***************************************************************************)
(* C1  Chunking invariance.  However the bytes of the current session were *)
(* split into feed_bytes / parse_file calls, the error count and the text  *)
(* get_text() returns are those of a decoder that was fed the same bytes   *)
(* as one chunk, and of one that was fed them one byte per call.           *)
(***************************************************************************)
ChunkingInvariance ==
    LET whole == feed_bytes(SessionStart, session)
        single == FeedEach(SessionStart, session)
    IN  /\ exc = "none"
        /\ get_num_decoding_errors(Self).ret = get_num_decoding_errors(whole).ret
        /\ get_num_decoding_errors(Self).ret = get_num_decoding_errors(single).ret
        /\ get_text(Self).ret = get_text(whole).ret
        /\ get_text(Self).ret = get_text(single).ret
        /\ get_text(Self).self.exc = "none"

\* "@", ESC ESC (an unresolved path), "a" have been fed
ChunkingWitness ==
    /\ session = <<64, 27, 27, 97>>
    /\ session_start_errors = 0
    /\ num_decoding_errors = 1
    /\ get_text(Self).ret = <<64, 97>>

(***************************************************************************)
(* C2  After get_text() returns, get_num_decoding_errors() returns 0.      *)
(* The code does not do this: _reset leaves num_decoding_errors alone.     *)
(***************************************************************************)
ErrorsZeroAfterGetText ==
    get_num_decoding_errors(get_text(Self).self).ret = 0

(***************************************************************************)
(* C3  Session independence.  Whatever was fed before the last get_text(), *)
(* the text the current session yields is the text a freshly constructed   *)
(* decoder yields for the bytes of the current session.                    *)
(***************************************************************************)
SessionIndependence ==
    get_text(Self).ret = get_text(feed_bytes(__init__, session)).ret

\* a later session (the counter it started with shows the earlier one) that
\* holds text and an unfinished command
SessionIndependenceWitness ==
    /\ session_start_errors > 0
    /\ session = <<64, 27, 97>>
    /\ get_text(Self).ret = <<64>>

(***************************************************************************)
(* Steps, seen from the bytes of the session: a step that feeds bytes      *)
(* (feed_bytes or parse_file) extends session by them.                     *)
(***************************************************************************)
Feeds == /\ Len(session') >= Len(session)
         /\ SubSeq(session', 1, Len(session)) = session

\* the bytes a feeding step feeds
Fed == SubSeq(session', Len(session) + 1, Len(session'))

\* the paths of the dispatch tree: every key sequence that leads from the
\* root to a dict or to a method
RECURSIVE PathsFrom(_)
PathsFrom(node) ==
    IF node.kind = "dict"
    THEN {<<>>} \cup UNION {{<<k>> \o p : p \in PathsFrom(node.items[k])} :
                             k \in DOMAIN node.items}
    ELSE {<<>>}

TreePaths == PathsFrom(DecoderTree)

LeadBytes == {27, 29}

(***************************************************************************)
(* C4  Unresolved path recovery.  A lead byte met in FILL_DATA_BUF and a   *)
(* next byte that is no key under that lead byte (fed by the same call or  *)
(* by the next one) raise nothing, add exactly 1 to the error counter and  *)
(* leave the decoder in FILL_DATA_BUF with empty command and argument      *)
(* buffers; bytes that are no lead bytes and arrive in FILL_DATA_BUF, in   *)
(* the same call or a later one, are appended to the data buffer.          *)
(***************************************************************************)
NoLeadFrom(bytes, k) == \A i \in k..Len(bytes) : bytes[i] \notin LeadBytes

Recovered(rest) ==
    /\ exc' = "none"
    /\ num_decoding_errors' = num_decoding_errors + 1
    /\ decoder_mode' = FILL_DATA_BUF
    /\ cmd_buf' = <<>>
    /\ cmd_arg_buf' = <<>>
    /\ cmd_expected_nargs' = 0
    /\ data_buf' = AsList(rest)
    /\ calls' = calls

UnresolvedPathRecovery ==
    [][Feeds =>
        \* the lead byte and the failing byte arrive in one call
        /\ (/\ decoder_mode = FILL_DATA_BUF
            /\ Len(Fed) >= 2
            /\ Fed[1] \in LeadBytes
            /\ <<<<Fed[1]>>, <<Fed[2]>>>> \notin TreePaths
            /\ NoLeadFrom(Fed, 3))
           => Recovered(SubSeq(Fed, 3, Len(Fed)))
        \* the lead byte arrived at the end of an earlier call
        /\ (/\ decoder_mode = FILL_CMD_BUF
            /\ Len(cmd_buf) = 1
            /\ Len(Fed) >= 1
            /\ <<cmd_buf[1], <<Fed[1]>>>> \notin TreePaths
            /\ NoLeadFrom(Fed, 2))
           => Recovered(SubSeq(Fed, 2, Len(Fed)))
        \* literal bytes in FILL_DATA_BUF
        /\ (decoder_mode = FILL_DATA_BUF /\ NoLeadFrom(Fed, 1))
           => /\ exc' = "none"
              /\ data_buf' = data_buf \o AsList(Fed)
              /\ decoder_mode' = FILL_DATA_BUF
              /\ num_decoding_errors' = num_decoding_errors
              /\ out_buf' = out_buf]_vars

\* GS '@' (no entry under GS), then "a" collected as data
UnresolvedPathWitness ==
    /\ session = <<64, 29, 64, 97>>
    /\ num_decoding_errors = session_start_errors + 1
    /\ decoder_mode = FILL_DATA_BUF
    /\ cmd_buf = <<>>
    /\ data_buf = <<<<97>>>>
    /\ out_buf = <<<<64>>>>

(***************************************************************************)
(* C5  Handler-failure asymmetry.  When the byte a step feeds completes    *)
(* the arguments of a resolved command and the command's action raises on  *)
(* them (ESC 'a' n with n not in {0,1,2,48,49,50}), nothing escapes        *)
(* feed_bytes, the error counter and the output buffer are unchanged, the  *)
(* command and argument buffers are empty, the expected number of          *)
(* arguments is 0 and the mode is FILL_DATA_BUF.                           *)
(***************************************************************************)
ActionRaises(args) ==
    LET found == Search(decoder_tree, cmd_buf).found IN
    \/ cmd_buf = <<ESC, <<97>>>> /\ args[1][1] \notin {0, 1, 2, 48, 49, 50}
    \/ callable(found) /\ Call(Self, found, args).exc # "none"

HandlerFailureAsymmetry ==
    [][(/\ Feeds
        /\ Len(Fed) >= 1
        /\ decoder_mode = FILL_CMD_ARG_BUF
        /\ Len(cmd_arg_buf) + Len(Fed) = cmd_expected_nargs
        /\ ActionRaises(cmd_arg_buf \o AsList(Fed)))
       => /\ exc' = "none"
          /\ num_decoding_errors' = num_decoding_errors
          /\ out_buf' = out_buf
          /\ cmd_buf' = <<>>
          /\ cmd_arg_buf' = <<>>
          /\ cmd_expected_nargs' = 0
          /\ decoder_mode' = FILL_DATA_BUF]_vars

\* "@", then ESC 'a' '@': _select_justification was invoked with 64 and raised
HandlerFailureWitness ==
    /\ session = <<64, 27, 97, 64>>
    /\ calls = <<<<"_select_justification", <<<<64>>>>>>>>
    /\ exc = "none"
    /\ num_decoding_errors = session_start_errors
    /\ decoder_mode = FILL_DATA_BUF
    /\ out_buf = <<<<64>>>>

(***************************************************************************)
(* C6  Non-printable exclusion.  The current run of data-position bytes is *)
(* read off the session: the longest suffix of bytes that are no lead      *)
(* bytes and were each processed in FILL_DATA_BUF.  The data buffer holds  *)
(* exactly that run.  A flush of it (by a lead byte, or by get_text)       *)
(* raises nothing, leaves the error counter alone and adds the whole run   *)
(* to the output when all its bytes are printable, and nothing otherwise.  *)
(***************************************************************************)
\* the mode in which the i-th byte of the session was processed
ModeBefore(i) ==
    feed_bytes(SessionStart, SubSeq(session, 1, i - 1)).decoder_mode

DataPosition(i) ==
    session[i] \notin LeadBytes /\ ModeBefore(i) = FILL_DATA_BUF

DataRun ==
    LET n == Len(session)
        from == CHOOSE k \in 1..(n + 1) :
                    /\ \A i \in k..n : DataPosition(i)
                    /\ k > 1 => ~DataPosition(k - 1)
    IN  SubSeq(session, from, n)

\* what a flushed run adds to the output
Kept(run) == IF AllPrintable(run) THEN run ELSE <<>>

NonPrintableExclusion ==
    /\ data_buf = AsList(DataRun)
    /\ decoder_mode = FILL_DATA_BUF =>
         /\ \A lead \in LeadBytes :
              LET t == feed_bytes(Self, <<lead>>) IN
              /\ t.exc = "none"
              /\ t.num_decoding_errors = num_decoding_errors
              /\ Join(t.out_buf) = Join(out_buf) \o Kept(DataRun)
              /\ t.data_buf = <<>>
         /\ LET r == get_text(Self) IN
              /\ r.self.exc = "none"
              /\ r.self.num_decoding_errors = num_decoding_errors
              /\ r.ret = Join(out_buf) \o Kept(DataRun)

\* "@" and 0x02 formed one run, which the ESC of ESC '@' flushed: nothing of
\* it is in the output, and no error was counted
NonPrintableWitness ==
    /\ session = <<64, 2, 27, 64>>
    /\ calls = <<<<"_initialize_printer", <<>>>>>>
    /\ out_buf = <<>>
    /\ data_buf = <<>>
    /\ get_text(Self).ret = <<>>
    /\ num_decoding_errors = session_start_errors

(***************************************************************************)
(* C7  Command consumption.  When the session is printable text A, one     *)
(* complete command of the tree that is no feed-forward command, with       *)
(* arguments its action accepts, and printable text B, get_text() returns  *)
(* A followed by B and the session has counted no error (the count is 0 on *)
(* a fresh decoder).                                                       *)
(***************************************************************************)
\* cmd is the path of a method of the tree followed by as many argument
\* bytes as the method takes
IsCommand(cmd, names) ==
    \E k \in 2..Len(cmd) :
        LET path == AsList(SubSeq(cmd, 1, k))
            args == AsList(SubSeq(cmd, k + 1, Len(cmd)))
            found == IF path \in TreePaths THEN Search(DecoderTree, path).found
                     ELSE None
        IN  /\ callable(found)
            /\ found.name \in names
            /\ Len(args) = co_argcount(found.name) - 1
            /\ found.name = "_select_justification" =>
                   args[1][1] \in {0, 1, 2, 48, 49, 50}

QuietNames ==
    {"_select_print_mode", "_select_userdef_charset", "_set_underline",
     "_set_font", "_initialize_printer", "_set_emphasis_mode", "_cut",
     "_select_justification", "_pulse", "_upside_down", "_set_character_size",
     "_process_graphics_data", "_set_left_margin", "_cut_paper",
     "_set_print_area_width", "_set_barcode_height"}

ArgumentDrivenOutput ==
    (decoder_mode = FILL_CMD_ARG_BUF /\ cmd_buf = <<ESC, <<100>>>>) =>
        \A n \in 0..255 :
            LET t == feed_bytes(Self, <<n>>) IN
            /\ t.exc = "none"
            /\ Len(t.out_buf) = Len(out_buf) + 1
            /\ SubSeq(t.out_buf, 1, Len(out_buf)) = out_buf
            /\ Len(t.out_buf[Len(t.out_buf)]) = n
            /\ \A i \in 1..n : t.out_buf[Len(t.out_buf)][i] = LF
            /\ get_text(t).ret = Join(out_buf) \o [i \in 1..n |-> LF]
            /\ t.calls = Append(calls, <<"_feed_forward_lines", <<<<n>>>>>>)
            /\ t.data_buf = data_buf
            /\ t.num_decoding_errors = num_decoding_errors
            /\ t.decoder_mode = FILL_DATA_BUF
            /\ t.cmd_buf = <<>> /\ t.cmd_arg_buf = <<>>
            /\ t.cmd_expected_nargs = 0

\* "@", then ESC 'd' 2: two line feeds follow the "@" in the output
ArgumentDrivenWitness ==
    /\ session = <<64, 27, 100, 2>>
    /\ out_buf = <<<<64>>, <<LF, LF>>>>
    /\ calls = <<<<"_feed_forward_lines", <<<<2>>>>>>>>
    /\ decoder_mode = FILL_DATA_BUF

(***************************************************************************)
(* C9  Truncated command at finalization.  Called in FILL_CMD_BUF or       *)
(* FILL_CMD_ARG_BUF, get_text() returns the output buffer as it is, with   *)
(* nothing of the command or argument buffer in it, invokes no printer     *)
(* method, leaves the error counter alone and empties both buffers.        *)
(***************************************************************************)
TruncatedCommandDiscarded ==
    decoder_mode \in {FILL_CMD_BUF, FILL_CMD_ARG_BUF} =>
        LET r == get_text(Self) IN
        /\ r.self.exc = "none"
        /\ r.ret = Join(out_buf)
        /\ r.self.calls = calls
        /\ r.self.num_decoding_errors = num_decoding_errors
        /\ r.self.cmd_buf = <<>>
        /\ r.self.cmd_arg_buf = <<>>
        /\ r.self.out_buf = <<>>
        /\ r.self.decoder_mode = FILL_DATA_BUF

\* "@", then GS 'L' and the first of its two argument bytes
TruncatedCommandWitness ==
    /\ session = <<64, 29, 76, 97>>
    /\ decoder_mode = FILL_CMD_ARG_BUF
    /\ cmd_buf = <<GS, <<76>>>>
    /\ cmd_arg_buf = <<<<97>>>>
    /\ calls = <<>>
    /\ get_text(Self).ret = <<64>>

(***************************************************************************)
(* C10  Error counter steps.  No step that feeds bytes lowers the error    *)
(* counter or adds more to it than the number of bytes it feeds.  A step   *)
(* that feeds one byte leaves the counter or adds exactly 1 to it, and     *)
(* it adds 1 exactly when the byte is processed in FILL_CMD_BUF and the    *)
(* command buffer with that byte is no path of the dispatch tree.          *)
(* get_num_decoding_errors() returns the counter and changes nothing.      *)
(***************************************************************************)
ErrorCounterSteps ==
    /\ [][Feeds =>
            /\ num_decoding_errors' >= num_decoding_errors
            /\ num_decoding_errors' - num_decoding_errors <= Len(Fed)
            /\ Len(Fed) = 1 =>
                 /\ num_decoding_errors' - num_decoding_errors \in {0, 1}
                 /\ num_decoding_errors' = num_decoding_errors + 1
                      <=> /\ decoder_mode = FILL_CMD_BUF
                          /\ Append(cmd_buf, <<Fed[1]>>) \notin TreePaths]_vars
    /\ [](/\ get_num_decoding_errors(Self).self = Self
          /\ get_num_decoding_errors(Self).ret = num_decoding_errors)

\* GS '(' is a path, GS '(' '@' is none: one error, counted at the third byte
ErrorCounterWitness ==
    /\ session = <<29, 40, 64>>
    /\ num_decoding_errors = session_start_errors + 1
    /\ decoder_mode = FILL_DATA_BUF


(***************************************************************************)
(* C11  Literal passthrough.  On a decoder that has counted no error (a    *)
(* freshly constructed one, or one that get_text() has reset to the same   *)
(* state), when the bytes fed so far, in whatever chunks, are all          *)
(* printable and none is a lead byte, get_text() returns exactly these     *)
(* bytes and the error count is 0 before and after it; and this stays so   *)
(* when any one printable byte is fed next.                                *)
(***************************************************************************)
LiteralPassthrough ==
    (/\ session_start_errors = 0
     /\ AllPrintable(session)
     /\ NoLeadFrom(session, 1))
    => /\ exc = "none"
       /\ get_text(Self).self.exc = "none"
       /\ get_text(Self).ret = session
       /\ get_num_decoding_errors(Self).ret = 0
       /\ get_num_decoding_errors(get_text(Self).self).ret = 0
       /\ \A p \in PRINTABLES \ LeadBytes :
             LET t == feed_bytes(Self, <<p>>) IN
             /\ t.exc = "none"
             /\ get_text(t).ret = session \o <<p>>
             /\ get_num_decoding_errors(t).ret = 0
             /\ get_num_decoding_errors(get_text(t).self).ret = 0

\* "@ad(" has been fed to a decoder that has counted no error
LiteralPassthroughWitness ==
    /\ session = <<64, 97, 100, 40>>
    /\ session_start_errors = 0
    /\ data_buf = AsList(session)
    /\ out_buf = <<>>
    /\ get_text(Self).ret = <<64, 97, 100, 40>>
    /\ num_decoding_errors = 0

(***************************************************************************)
(* C12  Empty input.  A decoder that has been fed nothing since its        *)
(* construction is the constructed object; feeding it the empty chunk      *)
(* (feed_bytes(b''), or parse_file of an empty file), once or twice,       *)
(* leaves it so; get_text() then returns the empty text, raises nothing,   *)
(* and the error count is 0 before and after it.                           *)
(***************************************************************************)
EmptyInput ==
    (session = <<>> /\ session_start_errors = 0)
    => /\ Self = [__init__ EXCEPT !.calls = calls]
       /\ calls = <<>>
       /\ feed_bytes(Self, <<>>) = Self
       /\ feed_bytes(feed_bytes(Self, <<>>), <<>>) = Self
       /\ parse_file(Self, <<>>) = Self
       /\ get_text(Self).self.exc = "none"
       /\ get_text(Self).ret = <<>>
       /\ get_text(feed_bytes(Self, <<>>)).ret = <<>>
       /\ get_num_decoding_errors(Self).ret = 0
       /\ get_num_decoding_errors(get_text(Self).self).ret = 0

\* nothing has been fed (empty chunks leave the state as it is)
EmptyInputWitness ==
    /\ session = <<>>
    /\ session_start_errors = 0
    /\ num_decoding_errors = 0
    /\ decoder_mode = FILL_DATA_BUF
    /\ data_buf = <<>>
    /\ out_buf = <<>>
    /\ feed_bytes(Self, <<>>) = Self
    /\ get_text(Self).ret = <<>>

(***************************************************************************)
(* C13  Mode/buffer consistency.  In FILL_DATA_BUF the command and         *)
(* argument buffers are empty and the expected number of arguments is 0.   *)
(* In FILL_CMD_BUF the data and argument buffers are empty and the command *)
(* buffer is a non-empty path to a dict of the tree.  In FILL_CMD_ARG_BUF  *)
(* the data buffer is empty, the command buffer is a path to a method      *)
(* whose number of arguments is the expected number, which is positive,    *)
(* and the argument buffer holds fewer bytes than that.  This holds in     *)
(* every state, after every byte (of any value 0..255) fed to it, and      *)
(* after get_text(), which leaves the decoder in FILL_DATA_BUF.            *)
(***************************************************************************)
Consistent(s) ==
    LET r == Search(s.decoder_tree, s.cmd_buf) IN
    CASE s.decoder_mode = FILL_DATA_BUF ->
            /\ s.cmd_buf = <<>>
            /\ s.cmd_arg_buf = <<>>
            /\ s.cmd_expected_nargs = 0
      [] s.decoder_mode = FILL_CMD_BUF ->
            /\ s.data_buf = <<>>
            /\ s.cmd_arg_buf = <<>>
            /\ s.cmd_buf # <<>>
            /\ r.err = "none"
            /\ r.found.kind = "dict"
      [] s.decoder_mode = FILL_CMD_ARG_BUF ->
            /\ s.data_buf = <<>>
            /\ r.err = "none"
            /\ callable(r.found)
            /\ co_argcount(r.found.name) - 1 = s.cmd_expected_nargs
            /\ s.cmd_expected_nargs > 0
            /\ Len(s.cmd_arg_buf) < s.cmd_expected_nargs
      [] OTHER -> FALSE

ModeBufferConsistency ==
    /\ exc = "none"
    /\ Consistent(Self)
    /\ \A b \in 0..255 :
          LET t == feed_bytes(Self, <<b>>) IN
          t.exc = "none" /\ Consistent(t)
    /\ LET r == get_text(Self) IN
          /\ r.self.exc = "none"
          /\ r.self.decoder_mode = FILL_DATA_BUF
          /\ Consistent(r.self)

\* "@", then GS '(': the command buffer is a path to the dict under GS '('
ModeBufferWitness ==
    /\ session = <<64, 29, 40>>
    /\ decoder_mode = FILL_CMD_BUF
    /\ cmd_buf = <<GS, <<40>>>>
    /\ Search(decoder_tree, cmd_buf).found.kind = "dict"
    /\ data_buf = <<>>
    /\ cmd_arg_buf = <<>>

(***************************************************************************)
(* C14  Output ordering.  The text is read off the stream from left to     *)
(* right: a run of data bytes ends at a lead byte or at the end of the     *)
(* stream and yields its bytes when all are printable; a lead byte starts  *)
(* a command, which is followed down the tree; a byte that is no key ends  *)
(* it, a method takes its argument bytes, and a complete ESC 'd' n or      *)
(* ESC 'J' n yields n line feeds at that place; a command the end of the   *)
(* stream cuts short yields nothing.  get_text() returns exactly this      *)
(* text for the session, and for the session with one more byte; "A" ESC   *)
(* 'd' 2 "B" yields "A", two line feeds, "B".                              *)
(***************************************************************************)
FeedForwardNames == {"_feed_forward_lines", "_feed_forward_units"}

RECURSIVE ExpectedData(_, _), ExpectedCommand(_, _)
\* bytes: the rest of the stream; run: the data bytes since the last command
ExpectedData(bytes, run) ==
    IF bytes = <<>> THEN Kept(run)
    ELSE IF Head(bytes) \in LeadBytes
    THEN Kept(run) \o ExpectedCommand(Tail(bytes), <<<<Head(bytes)>>>>)
    ELSE ExpectedData(Tail(bytes), Append(run, Head(bytes)))

\* bytes: the rest of the stream; path: the bytes of the command so far
ExpectedCommand(bytes, path) ==
    IF bytes = <<>> THEN <<>>
    ELSE LET p == Append(path, <<Head(bytes)>>) IN
         IF p \notin TreePaths THEN ExpectedData(Tail(bytes), <<>>)
         ELSE LET node == Search(DecoderTree, p).found IN
              IF node.kind = "dict" THEN ExpectedCommand(Tail(bytes), p)
              ELSE LET k == co_argcount(node.name) - 1 IN
                   IF Len(bytes) - 1 < k THEN <<>>
                   ELSE (IF node.name \in FeedForwardNames
                         THEN [i \in 1..bytes[2] |-> LF] ELSE <<>>)
                        \o ExpectedData(SubSeq(bytes, k + 2, Len(bytes)), <<>>)

OutputOrdering ==
    /\ get_text(Self).self.exc = "none"
    /\ get_text(Self).ret = ExpectedData(session, <<>>)
    /\ \A b \in Alphabet \cup {74} :
          LET r == get_text(feed_bytes(Self, <<b>>)) IN
          /\ r.self.exc = "none"
          /\ r.ret = ExpectedData(session \o <<b>>, <<>>)
    /\ get_text(feed_bytes(__init__, <<65, 27, 100, 2, 66>>)).ret = <<65, LF, LF, 66>>

\* ESC 'd' 2, then "a": the two line feeds come before the "a"
OutputOrderingWitness ==
    /\ session = <<27, 100, 2, 97>>
    /\ calls = <<<<"_feed_forward_lines", <<<<2>>>>>>>>
    /\ out_buf = <<<<LF, LF>>>>
    /\ data_buf = <<<<97>>>>
    /\ get_text(Self).ret = <<LF, LF, 97>>

(***************************************************************************)
(* A second specification, which follows single commands.  Bytes are fed   *)
(* one per call.  A session is a stream of data bytes ('@') with at most   *)
(* one lead byte met in FILL_DATA_BUF; the bytes that follow the lead byte *)
(* while the decoder searches for the command are the keys of the tree     *)
(* (every command is reached) and a byte that is no key; the bytes it      *)
(* collects as arguments are a non-printable byte, ESC, GS or a printable  *)
(* byte.                                                                   *)
(***************************************************************************)
\* longest byte stream fed between two get_text() calls, one byte per call
MaxSpan == 7

DataBytes == {64}
CommandBytes == {p[Len(p)][1] : p \in TreePaths \ {<<>>}} \cup {2}
ArgBytes == {2, 27, 29, 97}

\* the bytes that may come next in such a stream
NextBytes ==
    CASE decoder_mode = FILL_DATA_BUF ->
            IF \E i \in 1..Len(session) : session[i] \in LeadBytes
            THEN DataBytes ELSE DataBytes \cup LeadBytes
      [] decoder_mode = FILL_CMD_BUF -> CommandBytes
      [] decoder_mode = FILL_CMD_ARG_BUF -> ArgBytes

CommandNext ==
    \/ \E b \in NextBytes : Len(session) < MaxSpan /\ FeedBytes(<<b>>)
    \/ GetText

CommandSpec == Init /\ [][CommandNext]_vars

(***************************************************************************)
(* C15  No salvage on a broken path.  In FILL_CMD_BUF (the command buffer  *)
(* is ESC, GS or GS '('), a byte of any value 0..255 with which the        *)
(* command buffer is no path of the tree raises nothing, adds exactly 1 to *)
(* the error counter and empties the command buffer; the data buffer, the  *)
(* output buffer and the text get_text() would return are what they were,  *)
(* no printer method is invoked (no shorter path such as GS 'V' for        *)
(* GS '(' 'V' is taken), and the decoder is in FILL_DATA_BUF also when the *)
(* byte is a lead byte: a '@' that follows is data.  ESC ESC '@' yields    *)
(* "@" and 1 error.                                                        *)
(***************************************************************************)
NoSalvage ==
    /\ decoder_mode = FILL_CMD_BUF =>
          \A b \in 0..255 :
              Append(cmd_buf, <<b>>) \notin TreePaths =>
                  LET t == feed_bytes(Self, <<b>>)
                      u == feed_bytes(t, <<64>>)
                  IN  /\ t.exc = "none"
                      /\ t.num_decoding_errors = num_decoding_errors + 1
                      /\ t.decoder_mode = FILL_DATA_BUF
                      /\ t.cmd_buf = <<>>
                      /\ t.cmd_arg_buf = <<>>
                      /\ t.data_buf = data_buf
                      /\ t.data_buf = <<>>
                      /\ t.out_buf = out_buf
                      /\ t.calls = calls
                      /\ get_text(t).ret = get_text(Self).ret
                      /\ u.data_buf = <<<<64>>>>
                      /\ u.calls = calls
                      /\ u.num_decoding_errors = num_decoding_errors + 1
                      /\ get_text(u).ret = get_text(Self).ret \o <<64>>
    /\ LET t == feed_bytes(__init__, <<27, 27, 64>>) IN
          /\ get_num_decoding_errors(t).ret = 1
          /\ get_text(t).ret = <<64>>

\* ESC ESC: the second ESC is discarded with the first, so the '@' is data
NoSalvageWitness ==
    /\ session = <<27, 27, 64>>
    /\ num_decoding_errors = session_start_errors + 1
    /\ decoder_mode = FILL_DATA_BUF
    /\ cmd_buf = <<>>
    /\ data_buf = <<<<64>>>>
    /\ out_buf = <<>>
    /\ calls = <<>>
    /\ get_text(Self).ret = <<64>>

(***************************************************************************)
(* C16  Raw argument collection.  (a) In FILL_CMD_BUF, a byte (any of      *)
(* 0..255) that completes the path of a method with k > 0 arguments makes  *)
(* the decoder expect k arguments, with none collected and no method       *)
(* invoked; of the k bytes fed next, whatever they are (non-printable,     *)
(* ESC, GS or printable), the first k - 1 only extend the argument buffer: *)
(* no method is invoked, no error counted, nothing enters the data or      *)
(* output buffer and the command buffer stays; the k-th invokes the method *)
(* once, with the k bytes in the order of arrival, and leaves the decoder  *)
(* in FILL_DATA_BUF, where the next byte is data or starts a command.      *)
(* (b) In FILL_CMD_ARG_BUF a byte of any value 0..255 does the same: it    *)
(* only extends the argument buffer, or it is the last argument.           *)
(***************************************************************************)
\* the state t has just invoked the method name with args, once, since the
\* state whose log of invocations was before
InvokedOnce(t, before, name, args) ==
    /\ t.exc = "none"
    /\ t.calls = Append(before, <<name, args>>)
    /\ t.decoder_mode = FILL_DATA_BUF
    /\ t.cmd_buf = <<>>
    /\ t.cmd_arg_buf = <<>>
    /\ t.cmd_expected_nargs = 0
    /\ t.data_buf = <<>>
    /\ t.num_decoding_errors = num_decoding_errors
    /\ feed_bytes(t, <<97>>).data_buf = <<<<97>>>>
    /\ feed_bytes(t, <<97>>).calls = t.calls
    /\ feed_bytes(t, <<27>>).decoder_mode = FILL_CMD_BUF

RawArgumentCollection ==
    /\ decoder_mode = FILL_CMD_BUF =>
          \A b \in 0..255 :
              LET path == Append(cmd_buf, <<b>>)
                  found == IF path \in TreePaths
                           THEN Search(DecoderTree, path).found ELSE None
                  k == IF callable(found) THEN co_argcount(found.name) - 1 ELSE 0
                  t == feed_bytes(Self, <<b>>)
              IN  k > 0 =>
                    /\ t.exc = "none"
                    /\ t.decoder_mode = FILL_CMD_ARG_BUF
                    /\ t.cmd_expected_nargs = k
                    /\ t.cmd_arg_buf = <<>>
                    /\ t.calls = calls
                    /\ \A args \in [1..k -> ArgBytes] :
                          /\ \A j \in 0..(k - 1) :
                                feed_bytes(t, SubSeq(args, 1, j)) =
                                    [t EXCEPT !.cmd_arg_buf = AsList(SubSeq(args, 1, j))]
                          /\ InvokedOnce(feed_bytes(t, args), calls,
                                         found.name, AsList(args))
    /\ decoder_mode = FILL_CMD_ARG_BUF =>
          \A b \in 0..255 :
              LET t == feed_bytes(Self, <<b>>) IN
              IF Len(cmd_arg_buf) + 1 < cmd_expected_nargs
              THEN t = [Self EXCEPT !.cmd_arg_buf = Append(@, <<b>>)]
              ELSE InvokedOnce(t, calls, Search(decoder_tree, cmd_buf).found.name,
                               Append(cmd_arg_buf, <<b>>))

\* GS 'L' took ESC and 0x02 as its two arguments
RawArgumentWitness ==
    /\ session = <<29, 76, 27, 2>>
    /\ calls = <<<<"_set_left_margin", <<<<27>>, <<2>>>>>>>>
    /\ decoder_mode = FILL_DATA_BUF
    /\ data_buf = <<>>
    /\ cmd_buf = <<>>
    /\ num_decoding_errors = session_start_errors

(***************************************************************************)
(* C17  Only the feed-forward methods write output.  Whenever the decoder  *)
(* is in FILL_CMD_BUF and a byte (any of 0..255) completes the path of a   *)
(* method, invoking the method, with every byte value for its one          *)
(* argument, or for each of its several arguments in turn, leaves the      *)
(* output buffer, the data buffer and the error counter as they are,       *)
(* unless the method is that of ESC 'd' or ESC 'J': these append one       *)
(* fragment of exactly n line feeds, n being their argument, and change    *)
(* neither the data buffer nor the counter.  The same holds for the whole  *)
(* command fed to the decoder byte by byte.                                *)
(***************************************************************************)
\* the argument lists tried for a method of k arguments: every value of one
\* argument, the others being 0
ArgLists(k) ==
    {[i \in 1..k |-> IF i = pos THEN v ELSE 0] : pos \in 1..k, v \in 0..255}
        \cup {[i \in 1..k |-> 0]}

\* the step from state s to state t appended n line feeds (name is a
\* feed-forward method) or left the output alone (any other method)
OutputEffect(s, t, name, args) ==
    /\ t.data_buf = s.data_buf
    /\ t.num_decoding_errors = s.num_decoding_errors
    /\ IF name \in FeedForwardNames
       THEN /\ t.exc = "none"
            /\ t.out_buf = Append(s.out_buf, [i \in 1..args[1] |-> LF])
       ELSE t.out_buf = s.out_buf

TreeImmutable ==
    /\ [][decoder_tree' = decoder_tree]_vars
    /\ [](/\ decoder_tree = DecoderTree
          /\ PathsFrom(decoder_tree) = TreePaths
          /\ \A p \in TreePaths :
                /\ Search(decoder_tree, p).found = Search(DecoderTree, p).found
                /\ callable(Search(decoder_tree, p).found) =>
                      co_argcount(Search(decoder_tree, p).found.name) =
                          co_argcount(Search(DecoderTree, p).found.name)
          /\ \A b \in (IF decoder_mode = FILL_DATA_BUF THEN Alphabet ELSE 0..255) :
                feed_bytes(Self, <<b>>).decoder_tree = DecoderTree
          /\ \A b \in Alphabet :
                parse_file(Self, <<b>>).decoder_tree = DecoderTree
          /\ get_text(Self).self.decoder_tree = DecoderTree
          /\ get_num_decoding_errors(Self).self.decoder_tree = DecoderTree)

\* a later session (an earlier one counted a failed search) in which the
\* search for GS '(' 'L' has succeeded
TreeImmutableWitness ==
    /\ session_start_errors > 0
    /\ session = <<29, 40, 76>>
    /\ decoder_mode = FILL_CMD_ARG_BUF
    /\ cmd_buf = <<GS, <<40>>, <<76>>>>
    /\ decoder_tree = DecoderTree

(***************************************************************************)
(* C19  Printable-only output.  In every state out_buf is a list whose     *)
(* fragments hold bytes of PRINTABLES only: no ESC, no GS, no byte above   *)
(* 127.  So get_text() raises nothing (the joined bytes decode) and its    *)
(* text, which holds all of out_buf, is printable code points only.  One   *)
(* more byte of any value 0..255, and the flush of get_text() after it (in *)
(* FILL_DATA_BUF the byte has joined the current run), leave the fragments *)
(* of out_buf as they are and add only fragments of printable bytes, which *)
(* decode.                                                                 *)
(***************************************************************************)
PrintableOutput(s) ==
    /\ s.exc = "none"
    /\ s.out_buf_type = "list"
    /\ \A i \in 1..Len(s.out_buf) :
          \A j \in 1..Len(s.out_buf[i]) :
              /\ s.out_buf[i][j] \in PRINTABLES
              /\ s.out_buf[i][j] \notin LeadBytes
              /\ s.out_buf[i][j] < 128

TextReturned(s) ==
    LET r == get_text(s) IN
    /\ r.self.exc = "none"
    /\ Len(r.ret) >= Len(Join(s.out_buf))
    /\ \A i \in 1..Len(r.ret) : r.ret[i] \in PRINTABLES

\* t's out_buf is that of the current state and further printable fragments
AddsPrintable(t) ==
    /\ t.exc = "none"
    /\ t.out_buf_type = "list"
    /\ SubSeq(t.out_buf, 1, Len(out_buf)) = out_buf
    /\ \A i \in (Len(out_buf) + 1)..Len(t.out_buf) :
          /\ \A j \in 1..Len(t.out_buf[i]) :
                /\ t.out_buf[i][j] \in PRINTABLES
                /\ t.out_buf[i][j] \notin LeadBytes
                /\ t.out_buf[i][j] < 128
          /\ decode(t.out_buf[i]).ok

PrintableOnlyOutput ==
    /\ exc = "none"
    /\ PrintableOutput(Self)
    /\ decode(Join(_terminate_feed(Self).out_buf)).ok
    /\ TextReturned(Self)
    /\ \A b \in 0..255 :
          LET t == feed_bytes(Self, <<b>>) IN
          /\ AddsPrintable(t)
          /\ AddsPrintable(_terminate_feed(t))

\* "@", then ESC 'J' 2: the output holds the "@" and two line feeds
PrintableOnlyWitness ==
    /\ session = <<64, 27, 74, 2>>
    /\ calls = <<<<"_feed_forward_units", <<<<2>>>>>>>>
    /\ out_buf = <<<<64>>, <<LF, LF>>>>
    /\ get_text(Self).self.exc = "none"
    /\ get_text(Self).ret = <<64, LF, LF>>

(***************************************************************************)
(* C20  Bounded command span.  The span of a state is the number of bytes  *)
(* at the end of the session after each of which the decoder was not in    *)
(* FILL_DATA_BUF: outside FILL_DATA_BUF it counts the lead byte that       *)
(* started the command and the bytes fed since.  The span never exceeds 6  *)
(* (the lead byte and 5 more, as in GS '(' 'L' and 3 of its 4 arguments),  *)
(* so the decoder is back in FILL_DATA_BUF after at most 6 bytes that      *)
(* follow the lead byte; and whatever byte 0..255 comes next, the decoder  *)
(* either is in FILL_DATA_BUF after it or its span is still at most 6.     *)
(***************************************************************************)
\* the mode after the first i bytes of the session
ModeAfter(i) ==
    feed_bytes(SessionStart, SubSeq(session, 1, i)).decoder_mode

Span ==
    LET n == Len(session) IN
    CHOOSE k \in 0..n :
        /\ \A i \in (n - k + 1)..n : ModeAfter(i) # FILL_DATA_BUF
        /\ k < n => ModeAfter(n - k) = FILL_DATA_BUF

BoundedCommandSpan ==
    /\ ModeAfter(Len(session)) = decoder_mode
    /\ Span <= 6
    /\ decoder_mode # FILL_DATA_BUF =>
          /\ Span >= 1
          /\ session[Len(session) - Span + 1] \in LeadBytes
          /\ \A b \in 0..255 :
                LET t == feed_bytes(Self, <<b>>) IN
                /\ t.exc = "none"
                /\ t.decoder_mode # FILL_DATA_BUF => Span + 1 <= 6

\* GS '(' 'L' and its 4 arguments: the decoder is back in FILL_DATA_BUF with
\* the sixth byte after the lead byte, and not before
BoundedSpanWitness ==
    /\ session = <<29, 40, 76, 2, 27, 29, 97>>
    /\ \A i \in 1..6 : ModeAfter(i) # FILL_DATA_BUF
    /\ decoder_mode = FILL_DATA_BUF
    /\ Span = 0
    /\ calls = <<<<"_process_graphics_data", <<<<2>>, <<27>>, <<29>>, <<97>>>>>>>>

====
